---- MODULE Spec2Model ----
(***************************************************************************)
(* Model of the project-scaffolding CLI: argument parsing, prompting,      *)
(* template validation and the Listr task pipeline of createProject.       *)
(* The target directory is a function from the paths that exist to their   *)
(* contents; file contents and strings built by the program are sequences  *)
(* of text fragments.                                                      *)
(***************************************************************************)
EXTENDS Integers, Sequences, FiniteSets, TLC

VARIABLES
  variant,      \* which createProject of src/main.js runs: "v1" (l.31-81), "v2" (l.142-199), "remote"
  argv,         \* the command line: [positional, yes, git, install]
  readable,     \* the template directories that exist and are readable
  reachable,    \* whether the remote template URL answers 2xx
  now,          \* new Date().getFullYear()
  pc,           \* position of the run
  options,      \* the options record
  asked,        \* names of the questions handed to prompt()
  fs,           \* the target directory: existing path -> content
  fs0,          \* the target directory before the run
  tasks,        \* the task list given to Listr
  idx,          \* index of the next task of the pipeline
  report,       \* Listr's per-task state: index -> [state, output]
  executed,     \* every action invocation so far: [act, inPipeline, ok]
  exitCode,     \* process exit code set by exit(1); -1 while none
  console,      \* messages printed by createProject
  yearsArg,     \* argument of a direct copyrightYears call
  yearsOut      \* its result

vars == <<variant, argv, readable, reachable, now, pc, options, asked, fs, fs0,
          tasks, idx, report, executed, exitCode, console, yearsArg, yearsOut>>

----------------------------------------------------------------------------
(* Bounds and constants *)

MinYear == 2017
MaxYear == 2024
Years == MinYear..MaxYear

CreationYear == 2019
CopyrightHolders == "Pierre Raoul"

Undefined == "<undefined>"
DefaultTemplate == "JavaScript"
InstallHint == "Pass --install to automatically install dependencies"
NoReason == Undefined

\* JavaScript truthiness of a string-or-undefined value
Truthy(v) == v # Undefined /\ v # ""

\* String.prototype.toLowerCase on the identifiers of the model
ToLowerCase(s) ==
  CASE s = "JavaScript" -> "javascript"
    [] s = "TypeScript" -> "typescript"
    [] s = "Remote-Kit" -> "remote-kit"
    [] OTHER -> s

\* Positional arguments tried on the command line
Positionals == {<<>>, <<"">>, <<"javascript">>, <<"JavaScript">>, <<"nosuch">>, <<"remote-kit">>}

\* The template registry: key -> [label, remoteUrl]
TemplateDefs ==
  [k \in {"javascript", "typescript", "remote-kit"} |->
     CASE k = "javascript" -> [label |-> "JavaScript", remoteUrl |-> Undefined]
       [] k = "typescript" -> [label |-> "TypeScript", remoteUrl |-> Undefined]
       [] k = "remote-kit" -> [label |-> "Remote-Kit",
                               remoteUrl |-> "https://example.org/remote-kit.git"]]

\* Object.values(templateDefs).map(d => d.label)
Labels == {TemplateDefs[k].label : k \in DOMAIN TemplateDefs}

\* Template directories shipped with the tool and their files
TemplateDirs == {"javascript", "typescript"}
TemplateTree(dir) ==
  CASE dir = "javascript" -> {"package.json", "src/index.js"}
    [] dir = "typescript" -> {"package.json", "tsconfig.json"}
    [] OTHER -> {}
TemplateContent(dir, path) == <<"template:", dir, path>>

\* Paths that may already exist in the target directory
PreExisting == {"package.json", ".gitignore", "LICENSE"}
OldContent == <<"old content">>

----------------------------------------------------------------------------
(* Strings *)

Digit(d) ==
  CASE d = 0 -> "0" [] d = 1 -> "1" [] d = 2 -> "2" [] d = 3 -> "3" [] d = 4 -> "4"
    [] d = 5 -> "5" [] d = 6 -> "6" [] d = 7 -> "7" [] d = 8 -> "8" [] d = 9 -> "9"

\* Number-to-string conversion of a non-negative integer
RECURSIVE NumToString(_)
NumToString(n) ==
  IF n < 10 THEN <<Digit(n)>> ELSE NumToString(n \div 10) \o <<Digit(n % 10)>>

\* String.prototype.replace(pattern, value): the first occurrence only
RECURSIVE Replace(_, _, _)
Replace(text, pattern, value) ==
  IF text = <<>> THEN <<>>
  ELSE IF Head(text) = pattern THEN value \o Tail(text)
  ELSE <<Head(text)>> \o Replace(Tail(text), pattern, value)

\* value occurs in text as a contiguous run
Contains(text, value) ==
  \E i \in 1..(Len(text) - Len(value) + 1) :
    SubSeq(text, i, i + Len(value) - 1) = value

----------------------------------------------------------------------------
(* Option resolution *)

\* { ...base, ...over }
Spread(base, over) ==
  [k \in DOMAIN base \cup DOMAIN over |-> IF k \in DOMAIN over THEN over[k] ELSE base[k]]

\* args._[0]
FirstPositional(a) == IF Len(a.positional) > 0 THEN a.positional[1] ELSE Undefined

parseArgumentsIntoOptions(a) ==
  [skipPrompts |-> a.yes,
   git         |-> a.git,
   template    |-> FirstPositional(a),
   runInstall  |-> a.install]

\* the questions promptForMissingOptions pushes
Questions(o) ==
  IF o.skipPrompts THEN {}
  ELSE (IF ~Truthy(o.template) THEN {"template"} ELSE {})
       \cup (IF ~o.git THEN {"git"} ELSE {})

\* the possible answer objects of prompt(questions)
Answers(qs) ==
  {[template |-> t, git |-> g] :
     t \in (IF "template" \in qs THEN Labels ELSE {Undefined}),
     g \in (IF "git" \in qs THEN BOOLEAN ELSE {FALSE})}

\* faulty variant: the answers replace the command line's values
promptAnswersWin(o, answers) ==
  IF o.skipPrompts
  THEN Spread(o, [template |-> IF Truthy(o.template) THEN o.template ELSE DefaultTemplate])
  ELSE Spread(o, [template |-> answers.template, git |-> answers.git])

\* the record promptForMissingOptions returns for the given answers
promptForMissingOptions(o, answers) ==
  IF o.skipPrompts
  THEN Spread(o, [template |-> IF Truthy(o.template) THEN o.template ELSE DefaultTemplate])
  ELSE Spread(o, [template |-> IF Truthy(o.template) THEN o.template ELSE answers.template,
                  git      |-> o.git \/ answers.git])

----------------------------------------------------------------------------
(* Metadata *)

\* faulty variant: the range is printed whenever the years differ
copyrightYearsDiffer(creationYear, nowYear) ==
  LET firstYear == IF creationYear # 0 THEN creationYear ELSE nowYear
      prefix    == IF nowYear # firstYear THEN NumToString(firstYear) \o <<" - ">> ELSE <<>>
  IN  prefix \o NumToString(nowYear)

copyrightYears(creationYear, nowYear) ==
  LET firstYear == IF creationYear # 0 THEN creationYear ELSE nowYear
      prefix    == IF nowYear > firstYear THEN NumToString(firstYear) \o <<" - ">> ELSE <<>>
  IN  prefix \o NumToString(nowYear)

\* licenseText of spdx-license-list/licenses/MIT, cut at its placeholders
LicenseText ==
  <<"MIT License", "Copyright (c) ", "<year>", " ", "<copyright holders>",
    "Permission is hereby granted ...">>

\* faulty variant: the holder placeholder is left in place
licenseContentNoHolder(o, nowYear) ==
  Replace(LicenseText, "<year>", copyrightYears(o.creationYear, nowYear))

licenseContent(o, nowYear) ==
  Replace(Replace(LicenseText, "<year>", copyrightYears(o.creationYear, nowYear)),
          "<copyright holders>", <<o.copyrightHolders>>)

\* the block the gitignore package writes for type 'Node'
NodeIgnoreBlock == <<"# Node", "node_modules/">>

----------------------------------------------------------------------------
(* Task actions: each yields the set of possible outcomes [fs, ok] *)

Put(f, path, content) ==
  [p \in DOMAIN f \cup {path} |-> IF p = path THEN content ELSE f[p]]

\* faulty variant: ncp overwrites
ClobberTrue == TRUE

\* the clobber option handed to ncp
Clobber == FALSE

\* ncp having reached the files S of the template tree
Ncp(f, dir, S) ==
  [p \in DOMAIN f \cup S |->
     IF p \in S /\ (Clobber \/ p \notin DOMAIN f) THEN TemplateContent(dir, p) ELSE f[p]]

copyTemplateFiles(o, f) ==
  IF o.templateDirectory \notin readable
  THEN {[fs |-> f, ok |-> FALSE]}
  ELSE {[fs |-> Ncp(f, o.templateDirectory, S), ok |-> S = TemplateTree(o.templateDirectory)] :
          S \in SUBSET TemplateTree(o.templateDirectory)}

createGitignore(o, f) ==
  LET old == IF ".gitignore" \in DOMAIN f THEN f[".gitignore"] ELSE <<>>
  IN  {[fs |-> Put(f, ".gitignore", old \o NodeIgnoreBlock), ok |-> TRUE],
       [fs |-> Put(f, ".gitignore", old), ok |-> FALSE],
       [fs |-> f, ok |-> FALSE]}

createLicense(o, f) ==
  {[fs |-> Put(f, "LICENSE", licenseContent(o, now)), ok |-> TRUE],
   [fs |-> f, ok |-> FALSE]}

initGit(o, f) ==
  {[fs |-> Put(f, ".git", <<"repository">>), ok |-> TRUE],
   [fs |-> f, ok |-> FALSE]}

projectInstall(o, f) ==
  {[fs |-> Put(f, "node_modules", <<"installed">>), ok |-> TRUE],
   [fs |-> f, ok |-> FALSE]}

----------------------------------------------------------------------------
(* The task lists handed to Listr *)

Task(title, act, enabled, skip) ==
  [title |-> title, act |-> act, enabled |-> enabled, skip |-> skip]

TasksV1 ==
  <<Task("Copy project files", "copy", "always", "never"),
    Task("Initialize git", "git init", "options.git", "never"),
    Task("Install dependencies", "install", "always", "!options.runInstall")>>

\* faulty variant: the license is written before the gitignore
TasksV2Swapped ==
  <<Task("Copy project files", "copy", "always", "never"),
    Task("Create License", "license", "always", "never"),
    Task("Create gitignore", "gitignore", "always", "never"),
    Task("Initialize git", "git init", "options.git", "never"),
    Task("Install dependencies", "install", "always", "!options.runInstall")>>

TasksV2 ==
  <<Task("Copy project files", "copy", "always", "never"),
    Task("Create gitignore", "gitignore", "always", "never"),
    Task("Create License", "license", "always", "never"),
    Task("Initialize git", "git init", "options.git", "never"),
    Task("Install dependencies", "install", "always", "!options.runInstall")>>

\* the enabled predicate of 'Initialize git' when templates may be remote
GitUnlessRemote(o) == o.git /\ ~o.isRemote

\* faulty variant: every task is enabled
TaskEnabledAlways(t, o) == TRUE

\* the enabled predicate of a task (Listr's default: enabled)
TaskEnabled(t, o) ==
  CASE t.enabled = "always" -> TRUE
    [] t.enabled = "options.git" -> o.git
    [] t.enabled = "options.git && !remote" -> GitUnlessRemote(o)

\* faulty variant: no task is ever skipped
TaskSkipNever(t, o) == NoReason

\* the skip predicate of a task: a reason, or NoReason
TaskSkip(t, o) ==
  CASE t.skip = "never" -> NoReason
    [] t.skip = "!options.runInstall" -> IF ~o.runInstall THEN InstallHint ELSE NoReason

\* git clone of the remote template into the target directory
RemoteTree == {"package.json", "README.md"}
cloneRepository(o, f) ==
  {[fs |-> f, ok |-> FALSE]} \cup
  (IF DOMAIN f = {}
   THEN {[fs |-> [p \in RemoteTree \cup {".git"} |->
                    IF p = ".git" THEN <<"repository">> ELSE <<"remote:", o.remoteUrl, p>>],
          ok |-> TRUE]}
   ELSE {})

\* File Materializer: clone for a remote source, copy for a local one
materialize(o, f) == IF o.isRemote THEN cloneRepository(o, f) ELSE copyTemplateFiles(o, f)

\* the operation a task's action invokes
ActName(t, o) ==
  IF t.act = "materialize" THEN (IF o.isRemote THEN "clone" ELSE "copy") ELSE t.act

Perform(t, o, f) ==
  CASE t.act = "copy"        -> copyTemplateFiles(o, f)
    [] t.act = "gitignore"   -> createGitignore(o, f)
    [] t.act = "license"     -> createLicense(o, f)
    [] t.act = "git init"    -> initGit(o, f)
    [] t.act = "install"     -> projectInstall(o, f)
    [] t.act = "materialize" -> materialize(o, f)

\* faulty variant: 'Initialize git' is enabled by the git option alone
TasksRemoteGitOption ==
  <<Task("Copy project files", "materialize", "always", "never"),
    Task("Create gitignore", "gitignore", "always", "never"),
    Task("Create License", "license", "always", "never"),
    Task("Initialize git", "git init", "options.git", "never"),
    Task("Install dependencies", "install", "always", "!options.runInstall")>>

TasksRemote ==
  <<Task("Copy project files", "materialize", "always", "never"),
    Task("Create gitignore", "gitignore", "always", "never"),
    Task("Create License", "license", "always", "never"),
    Task("Initialize git", "git init", "options.git && !remote", "never"),
    Task("Install dependencies", "install", "always", "!options.runInstall")>>

\* Listr's state of every task before the run
NoReport(ts) == [i \in 1..Len(ts) |-> [state |-> "none", output |-> ""]]

----------------------------------------------------------------------------
(* Initial states *)

EmptyRecord == [k \in {} |-> Undefined]

\* years in which whole runs are tried
RunYears == {MinYear, CreationYear, MaxYear}

InitRun(v) ==
  /\ variant = v
  /\ argv \in [positional : Positionals, yes : BOOLEAN, git : BOOLEAN, install : BOOLEAN]
  /\ readable \in SUBSET TemplateDirs
  /\ reachable \in (IF v = "remote" THEN BOOLEAN ELSE {FALSE})
  /\ now \in RunYears
  /\ pc = "cli"
  /\ options = EmptyRecord
  /\ asked = {}
  /\ \E pre \in SUBSET PreExisting : fs = [p \in pre |-> OldContent]
  /\ fs0 = fs
  /\ tasks = <<>>
  /\ idx = 1
  /\ report = <<>>
  /\ executed = <<>>
  /\ exitCode = -1
  /\ console = <<>>
  /\ yearsArg = 0
  /\ yearsOut = <<>>

Init == \E v \in {"v1", "v2"} : InitRun(v)

InitRemote == InitRun("remote")

InitYears ==
  /\ variant = "v2"
  /\ argv = [positional |-> <<>>, yes |-> FALSE, git |-> FALSE, install |-> FALSE]
  /\ readable = {}
  /\ reachable = FALSE
  /\ now \in Years
  /\ pc = "years"
  /\ options = EmptyRecord
  /\ asked = {}
  /\ fs = EmptyRecord
  /\ fs0 = fs
  /\ tasks = <<>>
  /\ idx = 1
  /\ report = <<>>
  /\ executed = <<>>
  /\ exitCode = -1
  /\ console = <<>>
  /\ yearsArg \in Years \cup {0}
  /\ yearsOut = <<>>

----------------------------------------------------------------------------
(* Actions *)

\* fetchOptionsFrom, first half: parseArgumentsIntoOptions
ParseArguments ==
  /\ pc = "cli"
  /\ options' = parseArgumentsIntoOptions(argv)
  /\ pc' = "prompt"
  /\ UNCHANGED <<variant, argv, readable, reachable, now, asked, fs, fs0, tasks, idx,
                 report, executed, exitCode, console, yearsArg, yearsOut>>

\* fetchOptionsFrom, second half: promptForMissingOptions
PromptForMissingOptions ==
  /\ pc = "prompt"
  /\ asked' = Questions(options)
  /\ \E answers \in Answers(Questions(options)) :
       options' = promptForMissingOptions(options, answers)
  /\ pc' = "create"
  /\ UNCHANGED <<variant, argv, readable, reachable, now, fs, fs0, tasks, idx,
                 report, executed, exitCode, console, yearsArg, yearsOut>>

\* faulty variant: the access check never fails
AccessAlwaysOk(dir) == TRUE

\* access(templateDir, R_OK)
AccessOk(dir) == dir \in readable

\* the catch block of the access check: console.error and exit(1)
InvalidTemplate ==
  /\ console' = Append(console, "ERROR Invalid template name")
  /\ exitCode' = 1
  /\ pc' = "exited"
  /\ UNCHANGED <<tasks, report>>

\* createProject of l.31-50: defaults, template directory, access check
CreateProjectV1 ==
  /\ pc = "create" /\ variant = "v1"
  /\ LET o == Spread(options, [templateDirectory |-> ToLowerCase(options.template)])
     IN  /\ options' = o
         /\ IF AccessOk(o.templateDirectory)
            THEN pc' = "precopy" /\ UNCHANGED <<console, exitCode, tasks, report>>
            ELSE InvalidTemplate
  /\ UNCHANGED <<variant, argv, readable, reachable, now, asked, fs, fs0, idx,
                 executed, yearsArg, yearsOut>>

\* createProject of l.52-76: the copy before the pipeline, then the task list
CopyBeforePipeline ==
  /\ pc = "precopy"
  /\ \E out \in copyTemplateFiles(options, fs) :
       /\ fs' = out.fs
       /\ executed' = Append(executed, [act |-> "copy", inPipeline |-> FALSE, ok |-> out.ok])
       /\ IF out.ok
          THEN /\ tasks' = TasksV1
               /\ report' = NoReport(TasksV1)
               /\ pc' = "tasks"
          ELSE /\ pc' = "failed"
               /\ UNCHANGED <<tasks, report>>
  /\ console' = Append(console, "Copy project files")
  /\ UNCHANGED <<variant, argv, readable, reachable, now, options, asked, fs0, idx,
                 exitCode, yearsArg, yearsOut>>

\* createProject of l.142-194: defaults, template directory, access check, task list
CreateProjectV2 ==
  /\ pc = "create" /\ variant = "v2"
  /\ LET o == Spread(options, [copyrightHolders  |-> CopyrightHolders,
                               creationYear      |-> CreationYear,
                               templateDirectory |-> ToLowerCase(options.template)])
     IN  /\ options' = o
         /\ IF AccessOk(o.templateDirectory)
            THEN /\ tasks' = TasksV2
                 /\ report' = NoReport(TasksV2)
                 /\ pc' = "tasks"
                 /\ UNCHANGED <<console, exitCode>>
            ELSE InvalidTemplate
  /\ UNCHANGED <<variant, argv, readable, reachable, now, asked, fs, fs0, idx,
                 executed, yearsArg, yearsOut>>

\* Template Source Resolver: registry lookup, then the validation of the reference
CreateProjectRemote ==
  /\ pc = "create" /\ variant = "remote"
  /\ LET key == ToLowerCase(options.template)
         url == IF key \in DOMAIN TemplateDefs THEN TemplateDefs[key].remoteUrl ELSE Undefined
         o   == Spread(options, [copyrightHolders  |-> CopyrightHolders,
                                 creationYear      |-> CreationYear,
                                 templateDirectory |-> key,
                                 isRemote          |-> url # Undefined,
                                 remoteUrl         |-> url])
     IN  /\ options' = o
         /\ IF (o.isRemote /\ reachable) \/ (~o.isRemote /\ AccessOk(key))
            THEN /\ tasks' = TasksRemote
                 /\ report' = NoReport(TasksRemote)
                 /\ pc' = "tasks"
                 /\ UNCHANGED <<console, exitCode>>
            ELSE InvalidTemplate
  /\ UNCHANGED <<variant, argv, readable, reachable, now, asked, fs, fs0, idx,
                 executed, yearsArg, yearsOut>>

\* what Listr does after a task's action rejected (exitOnError)
AfterFailure == "failed"

\* Listr reaching the task with the given title
RunTask(title) ==
  /\ pc = "tasks" /\ idx <= Len(tasks) /\ tasks[idx].title = title
  /\ LET t == tasks[idx] IN
       IF ~TaskEnabled(t, options)
       THEN /\ idx' = idx + 1
            /\ UNCHANGED <<pc, fs, report, executed>>
       ELSE IF TaskSkip(t, options) # NoReason
       THEN /\ report' = [report EXCEPT ![idx] = [state |-> "skipped",
                                                  output |-> TaskSkip(t, options)]]
            /\ idx' = idx + 1
            /\ UNCHANGED <<pc, fs, executed>>
       ELSE \E out \in Perform(t, options, fs) :
              /\ fs' = out.fs
              /\ executed' = Append(executed, [act |-> ActName(t, options),
                                               inPipeline |-> TRUE, ok |-> out.ok])
              /\ report' = [report EXCEPT ![idx] =
                              [state |-> IF out.ok THEN "completed" ELSE "failed",
                               output |-> ""]]
              /\ idx' = IF out.ok THEN idx + 1 ELSE idx
              /\ pc' = IF out.ok THEN "tasks" ELSE AfterFailure
  /\ UNCHANGED <<variant, argv, readable, reachable, now, options, asked, fs0, tasks,
                 exitCode, console, yearsArg, yearsOut>>

TaskCopyProjectFiles == RunTask("Copy project files")
TaskCreateGitignore == RunTask("Create gitignore")
TaskCreateLicense == RunTask("Create License")
TaskInitializeGit == RunTask("Initialize git")
TaskInstallDependencies == RunTask("Install dependencies")

\* tasks.run() resolved: 'Project ready'
ProjectReady ==
  /\ pc = "tasks" /\ idx > Len(tasks)
  /\ console' = Append(console, "DONE Project ready")
  /\ pc' = "done"
  /\ UNCHANGED <<variant, argv, readable, reachable, now, options, asked, fs, fs0, tasks,
                 idx, report, executed, exitCode, yearsArg, yearsOut>>

\* a direct call of copyrightYears
CallCopyrightYears ==
  /\ pc = "years"
  /\ yearsOut' = copyrightYears(yearsArg, now)
  /\ pc' = "yearsDone"
  /\ UNCHANGED <<variant, argv, readable, reachable, now, options, asked, fs, fs0, tasks,
                 idx, report, executed, exitCode, console, yearsArg>>

Pipeline ==
  \/ TaskCopyProjectFiles
  \/ TaskCreateGitignore
  \/ TaskCreateLicense
  \/ TaskInitializeGit
  \/ TaskInstallDependencies
  \/ ProjectReady

Next ==
  \/ ParseArguments
  \/ PromptForMissingOptions
  \/ CreateProjectV1
  \/ CopyBeforePipeline
  \/ CreateProjectV2
  \/ Pipeline

NextRemote ==
  \/ ParseArguments
  \/ PromptForMissingOptions
  \/ CreateProjectRemote
  \/ Pipeline

NextYears == CallCopyrightYears

Spec == Init /\ [][Next]_vars
SpecRemote == InitRemote /\ [][NextRemote]_vars
SpecYears == InitYears /\ [][NextYears]_vars

----------------------------------------------------------------------------
(* Properties *)

Started == pc \notin {"cli", "prompt", "years", "yearsDone"}
Acts(inPipe) == {i \in 1..Len(executed) : executed[i].inPipeline = inPipe}
Ran(act) == \E i \in 1..Len(executed) : executed[i].act = act
Printed(msg) == \E i \in 1..Len(console) : console[i] = msg
TaskIndex(title) == CHOOSE i \in 1..Len(tasks) : tasks[i].title = title

\* C1: a template whose directory templates/<lowercased identifier> is not readable
\* ends the run in the invalid-template error with exit code 1, and the target
\* directory is never written: no action is executed before or after the error.
C1_InvalidTemplateNoWrite ==
  /\ pc \in {"cli", "prompt", "create"} => fs = fs0 /\ executed = <<>>
  /\ (Started /\ ToLowerCase(options.template) \notin readable) =>
       /\ fs = fs0
       /\ executed = <<>>
       /\ pc # "create" =>
            /\ pc = "exited"
            /\ exitCode = 1
            /\ Printed("ERROR Invalid template name")
            /\ tasks = <<>>

C1_Witness ==
  /\ pc = "exited"
  /\ ToLowerCase(options.template) \notin readable
  /\ fs0 # EmptyRecord

\* C2: a copy never changes or removes a path that existed before it, and a copy
\* that completes leaves every file of the template tree in the target directory.
C2_CopyNonClobbering ==
  [][(Len(executed') = Len(executed) + 1 /\ executed'[Len(executed')].act = "copy") =>
       /\ \A p \in DOMAIN fs : p \in DOMAIN fs' /\ fs'[p] = fs[p]
       /\ executed'[Len(executed')].ok =>
            TemplateTree(options.templateDirectory) \subseteq DOMAIN fs']_vars

C2_Witness ==
  /\ Len(executed) = 1
  /\ executed[1].act = "copy" /\ executed[1].ok
  /\ "package.json" \in DOMAIN fs0
  /\ fs["package.json"] = OldContent
  /\ "src/index.js" \in DOMAIN fs

\* the order of the task list the pipeline is documented to follow
ListOrder == <<"copy", "gitignore", "license", "git init", "install">>
OrderOf(act) == CHOOSE k \in 1..Len(ListOrder) : ListOrder[k] = act

\* the effect of a completed action is present in the target directory
EffectInPlace(act) ==
  CASE act = "copy"      -> TemplateTree(options.templateDirectory) \subseteq DOMAIN fs
    [] act = "gitignore" -> /\ ".gitignore" \in DOMAIN fs
                            /\ Contains(fs[".gitignore"], NodeIgnoreBlock)
    [] act = "license"   -> "LICENSE" \in DOMAIN fs /\ fs["LICENSE"] = licenseContent(options, now)
    [] act = "git init"  -> ".git" \in DOMAIN fs
    [] act = "install"   -> "node_modules" \in DOMAIN fs

\* C3: the pipeline executes its actions in list order, each after the previous one
\* ended; a failed action is the last one executed, the effects of the actions that
\* completed before it stay in place, and the run does not report 'Project ready'.
C3_OrderedAbortNoRollback ==
  /\ \A i, j \in Acts(TRUE) : i < j => OrderOf(executed[i].act) < OrderOf(executed[j].act)
  /\ \A i \in Acts(TRUE) :
       /\ executed[i].ok => EffectInPlace(executed[i].act)
       /\ ~executed[i].ok =>
            /\ i = Len(executed)
            /\ pc = "failed"
            /\ report[idx].state = "failed"
            /\ \A k \in (idx + 1)..Len(tasks) : report[k].state = "none"
            /\ ~Printed("DONE Project ready")
  /\ pc = "done" => \A i \in 1..Len(executed) : executed[i].ok

C3_Witness ==
  /\ variant = "v2"
  /\ pc = "failed"
  /\ Len(executed) = 3
  /\ executed[3].act = "license"
  /\ options.git /\ options.runInstall

\* C4: a task whose enabled predicate is false (only 'Initialize git' has one, false
\* when git = false) never runs its action, keeps no state in the report (neither
\* failed nor skipped), and is never the task the pipeline fails at.
C4_DisabledNeverRuns ==
  Started /\ ~options.git =>
    /\ ~Ran("git init")
    /\ \A i \in 1..Len(tasks) : tasks[i].enabled = "options.git" =>
         /\ report[i].state = "none"
         /\ pc = "failed" => idx # i

C4_Witness ==
  /\ pc = "done"
  /\ variant = "v2"
  /\ ~options.git
  /\ Ran("install")

\* C5: a task reported as skipped did not run its action and carries the reason of
\* its skip predicate; once the pipeline has reached 'Install dependencies', the
\* install ran if and only if runInstall is true, and with runInstall false the task
\* is reported skipped with the install hint and the pipeline ends in success.
C5_SkipReported ==
  /\ Ran("install") => options.runInstall
  /\ \A i \in 1..Len(tasks) :
       /\ report[i].state = "skipped" =>
            /\ tasks[i].title = "Install dependencies"
            /\ report[i].output = InstallHint
            /\ ~Ran(tasks[i].act)
       /\ (tasks[i].title = "Install dependencies" /\ (idx > i \/ report[i].state # "none")) =>
            /\ Ran("install") <=> options.runInstall
            /\ ~options.runInstall =>
                 /\ report[i] = [state |-> "skipped", output |-> InstallHint]
                 /\ pc \in {"tasks", "done"}
                 /\ pc = "done" => Printed("DONE Project ready")

C5_Witness ==
  /\ pc = "done"
  /\ ~options.runInstall
  /\ report[Len(tasks)].state = "skipped"
  /\ Printed("DONE Project ready")

\* C6 as stated: the current year alone when the creation year equals it, and
\* "<creationYear> - <currentYear>" for every other creation year.
C6_RangeUnlessEqual ==
  (pc = "yearsDone" /\ yearsArg \in Years) =>
    yearsOut = IF yearsArg = now
               THEN NumToString(now)
               ELSE NumToString(yearsArg) \o <<" - ">> \o NumToString(now)

\* C6 amended: "<creationYear> - <currentYear>" when the creation year is before the
\* current year; the current year alone when the creation year is the current year,
\* after it, or not given.
C6_RangeOnlyForEarlierYear ==
  pc = "yearsDone" =>
    yearsOut = IF yearsArg \in Years /\ yearsArg < now
               THEN NumToString(yearsArg) \o <<" - ">> \o NumToString(now)
               ELSE NumToString(now)

C6_Witness ==
  /\ pc = "yearsDone"
  /\ yearsArg = 2019 /\ now = 2024
  /\ yearsOut = <<"2", "0", "1", "9", " - ", "2", "0", "2", "4">>

JavascriptYesRun ==
  /\ variant = "v2"
  /\ argv = [positional |-> <<"javascript">>, yes |-> TRUE, git |-> FALSE, install |-> FALSE]
  /\ fs0 = EmptyRecord
  /\ "javascript" \in readable

\* C8: the javascript --yes run without --git and --install asks nothing, is never
\* rejected as an invalid template, fails only where an I/O step failed, and once
\* done holds exactly the template's files, a .gitignore with the Node block and a
\* LICENSE with the holder and the copyright years; git init never ran, there is
\* no .git, and the install task is reported skipped.
C8_JavascriptYesRun ==
  JavascriptYesRun =>
    /\ asked = {}
    /\ pc # "exited"
    /\ ~Ran("git init") /\ ~Ran("install")
    /\ ".git" \notin DOMAIN fs
    /\ pc = "failed" => ~executed[Len(executed)].ok
    /\ pc = "done" =>
         /\ DOMAIN fs = TemplateTree("javascript") \cup {".gitignore", "LICENSE"}
         /\ \A p \in TemplateTree("javascript") : fs[p] = TemplateContent("javascript", p)
         /\ Contains(fs[".gitignore"], NodeIgnoreBlock)
         /\ Contains(fs["LICENSE"], <<"Pierre Raoul">>)
         /\ Contains(fs["LICENSE"], NumToString(now))
         /\ Contains(fs["LICENSE"],
                     <<"Copyright (c) ">> \o
                     (IF now > 2019 THEN <<"2", "0", "1", "9", " - ">> ELSE <<>>)
                     \o NumToString(now))
         /\ ~Contains(fs["LICENSE"], <<"<year>">>)
         /\ ~Contains(fs["LICENSE"], <<"<copyright holders>">>)
         /\ report[TaskIndex("Install dependencies")] =
              [state |-> "skipped", output |-> InstallHint]
         /\ report[TaskIndex("Initialize git")].state = "none"
         /\ Printed("DONE Project ready")

C8_Witness ==
  /\ JavascriptYesRun
  /\ pc = "done"
  /\ now = MaxYear
  /\ "LICENSE" \in DOMAIN fs

\* the template given on the command line, if any
Given == Len(argv.positional) > 0
GivenNonEmpty == Given /\ argv.positional[1] # ""

\* C9 as stated: prompts and resolved options for every command line, the template
\* question being asked if and only if no positional template was given.
C9_PromptsIffAbsent ==
  (Started /\ variant \in {"v1", "v2"}) =>
    /\ argv.yes => asked = {} /\ (~Given => options.template = DefaultTemplate)
    /\ ~argv.yes =>
         /\ "template" \in asked <=> ~Given
         /\ "git" \in asked <=> ~argv.git
    /\ Given => options.template = argv.positional[1]
    /\ argv.git => options.git
    /\ options.runInstall = argv.install
    /\ options.template \notin {"", Undefined}

\* C9 amended: the same, with an empty positional template counting as none given:
\* the template question is asked if and only if no non-empty template was given,
\* and only a non-empty template given is kept.
C9_PromptsIffMissing ==
  (Started /\ variant \in {"v1", "v2"}) =>
    /\ argv.yes => asked = {} /\ (~GivenNonEmpty => options.template = DefaultTemplate)
    /\ ~argv.yes =>
         /\ "template" \in asked <=> ~GivenNonEmpty
         /\ "git" \in asked <=> ~argv.git
    /\ asked \subseteq {"template", "git"}
    /\ GivenNonEmpty => options.template = argv.positional[1]
    /\ argv.git => options.git
    /\ options.skipPrompts = argv.yes
    /\ options.runInstall = argv.install
    /\ options.template \notin {"", Undefined}

C9_Witness ==
  /\ pc = "create"
  /\ ~argv.yes /\ argv.git /\ argv.install
  /\ argv.positional = <<"">>
  /\ asked = {"template"}
  /\ options.template = "TypeScript"

\* C10: every action is executed at most once in a run, and only inside the task
\* pipeline.
C10_OncePerRunInPipeline ==
  /\ Acts(FALSE) = {}
  /\ \A i, j \in 1..Len(executed) : executed[i].act = executed[j].act => i = j
  /\ executed # <<>> => tasks # <<>>

====
